---- MODULE Spec2Model ----
(***************************************************************************)
(* Model of src/textcompose/index.tsx: the PromptDj element's realtime     *)
(* playback scheduler, its live music session and its throttled publisher. *)
(*                                                                         *)
(* Time is counted in milliseconds.  `now` is the time since the page was  *)
(* loaded: audioContext.currentTime is `now` (1 s = 1000), Date.now() is   *)
(* EpochMs + now.  One action is one run-to-completion step of the         *)
(* JavaScript event loop: an event handler up to its first real            *)
(* suspension, or the continuation that follows one.                       *)
(***************************************************************************)
EXTENDS Integers, Sequences, FiniteSets, TLC

VARIABLES
    \* the fields of the PromptDj element and of its closures
    tracks,             \* this.tracks: the Map's values in insertion order
    nextTrackId,        \* this.nextTrackId
    filteredTrackTexts, \* this.filteredTrackTexts
    lastCall,           \* the lastCall of each throttle closure
    playbackState,      \* this.playbackState
    nextStartTime,      \* this.nextStartTime (ms; 0 is "unset")
    session,            \* this.session: 0 (undefined) or a session id
    connectionError,    \* this.connectionError
    timers,             \* pending setTimeout callbacks, in arming order
    awaiting,           \* setWeightedPrompts promises awaited and not yet settled
    \* the platform and the remote service
    now,                \* ms since page load
    mounted,            \* firstUpdated has run
    sessions,           \* status of every session ever created
    connects,           \* connectToSession calls awaiting ai.live.music.connect
    inflight,           \* chunks whose decodeAudioData is awaited, in arrival order
    chunkSeq,           \* number of audio-chunk messages received so far
    gain,               \* what the gain of this.outputNode is set or ramping to (0 or 1)
    running,            \* audioContext.state is 'running'
    settings,           \* the fields of this.settingsController
    \* history, for stating properties
    pausedAt,           \* chunkSeq when outputNode was last replaced (0: never)
    chosen,             \* the last value picked on each slider, and the last input
    lastEnd,            \* when the buffer last handed to the device ends (-1: none yet)
    interrupted,        \* pause, stop or underrun since the last buffer was handed over
    firstSched,         \* when the first buffer of the current run was handed over (-1: none)
    lastSeq,            \* arrival number of the chunk last handed to the device (0: none)
    pub,                \* per publish kind: what was last asked for and last sent
    \* what the last step did
    calls,              \* calls of the throttled publishers
    started,            \* buffers handed to the device with source.start
    outbox,             \* commands issued to sessions
    toast,              \* toastMessage.show calls
    unhandled,          \* rejected promises that no handler caught
    deleted,            \* filteredTrackTexts.delete calls
    dispatched,         \* tracks-changed events dispatched: the detail of each
    missed,             \* lookups in this.tracks that found no track: "get" or "has"
    received            \* length of audioChunks in the message handled (0: no such message)

thisVars == <<tracks, nextTrackId, filteredTrackTexts, lastCall, playbackState,
              nextStartTime, session, connectionError, timers, awaiting,
              gain, running, settings, pausedAt, chosen,
              lastEnd, interrupted, firstSched, lastSeq, pub, calls, started,
              outbox, toast, unhandled, deleted, dispatched, missed, received>>
vars == <<tracks, nextTrackId, filteredTrackTexts, lastCall, playbackState,
          nextStartTime, session, connectionError, timers, awaiting, now, mounted,
          sessions, connects, inflight, chunkSeq, gain, running, settings,
          pausedAt, chosen,
          lastEnd, interrupted,
          firstSched, lastSeq, pub, calls, started, outbox, toast,
          unhandled, deleted, dispatched, missed, received>>

-----------------------------------------------------------------------------
(* Program constants (ms) *)

bufferTime == 2000
ThrottleDelay == 200
\* loadAudio ramps the gain from 0 to 1 in 0.2 s
RampUp == 200

(* Bounds of the model *)

EpochMs == 1000
MaxTime == 4000
MaxResetTime == 2000
MaxPubTime == 400
MaxEditTime == 1000
MaxChunks == 3
MaxPerMessage == 2
MaxTimers == 2
MaxSessions == 2
MaxTracks == 2
MaxTrackId == 3

CoarseSteps == {1000}
FineSteps == {100}
Durations == {1000, 2000}
DecodeOutcomes == {"ok", "fail"}

SessionIds == 1..MaxSessions
Kinds == {"prompts", "config"}

\* Date.now()
DateNow == EpochMs + now
\* audioContext.currentTime
currentTime == now

-----------------------------------------------------------------------------
(* Text.  A string is the sequence of its characters.                       *)

RECURSIVE TrimStart(_)
TrimStart(t) == IF t # <<>> /\ Head(t) = " " THEN TrimStart(Tail(t)) ELSE t

RECURSIVE TrimEnd(_)
TrimEnd(t) ==
    IF t # <<>> /\ t[Len(t)] = " " THEN TrimEnd(SubSeq(t, 1, Len(t) - 1)) ELSE t

\* String.prototype.trim
Trim(t) == TrimEnd(TrimStart(t))

\* `${track.name}: ${track.text}`
PromptText(track) == track.name \o <<":", " ">> \o track.text

\* Variant of Publishable: the text is tested as it is, not trimmed.
PublishableUntrimmed(track, filtered) ==
    /\ track.text \notin filtered
    /\ track.weight > 0
    /\ track.text # <<>>

\* Variant of Publishable: filteredTrackTexts is not consulted.
PublishableUnfiltered(track, filtered) ==
    /\ track.weight > 0
    /\ Trim(track.text) # <<>>

\* The predicate of the filter of lines 1242-1244
Publishable(track, filtered) ==
    /\ track.text \notin filtered
    /\ track.weight > 0
    /\ Trim(track.text) # <<>>

\* promptsToSend of setSessionWeightedPrompts (lines 1242-1248)
RECURSIVE PromptsToSend(_, _)
PromptsToSend(ts, filtered) ==
    IF ts = <<>> THEN <<>>
    ELSE (IF Publishable(Head(ts), filtered)
          THEN <<[text |-> PromptText(Head(ts)), weight |-> Head(ts).weight]>>
          ELSE <<>>) \o PromptsToSend(Tail(ts), filtered)

-----------------------------------------------------------------------------
(* The fields of `this` that the methods read and write, as a record, so    *)
(* that a handler is the composition of the methods it calls.               *)

Self ==
    [tracks |-> tracks, nextTrackId |-> nextTrackId,
     filteredTrackTexts |-> filteredTrackTexts, lastCall |-> lastCall,
     playbackState |-> playbackState, nextStartTime |-> nextStartTime,
     session |-> session, connectionError |-> connectionError,
     timers |-> timers, awaiting |-> awaiting,
     gain |-> gain, running |-> running, settings |-> settings,
     pausedAt |-> pausedAt, chosen |-> chosen,
     lastEnd |-> lastEnd, interrupted |-> interrupted,
     firstSched |-> firstSched, lastSeq |-> lastSeq, pub |-> pub,
     calls |-> <<>>, started |-> <<>>, outbox |-> <<>>, toast |-> <<>>,
     unhandled |-> <<>>, deleted |-> <<>>, dispatched |-> <<>>,
     missed |-> <<>>, received |-> 0]

Commit(s) ==
    /\ tracks' = s.tracks
    /\ nextTrackId' = s.nextTrackId
    /\ filteredTrackTexts' = s.filteredTrackTexts
    /\ lastCall' = s.lastCall
    /\ playbackState' = s.playbackState
    /\ nextStartTime' = s.nextStartTime
    /\ session' = s.session
    /\ connectionError' = s.connectionError
    /\ timers' = s.timers
    /\ awaiting' = s.awaiting
    /\ gain' = s.gain
    /\ running' = s.running
    /\ pausedAt' = s.pausedAt
    /\ settings' = s.settings
    /\ chosen' = s.chosen
    /\ lastEnd' = s.lastEnd
    /\ interrupted' = s.interrupted
    /\ firstSched' = s.firstSched
    /\ lastSeq' = s.lastSeq
    /\ pub' = s.pub
    /\ calls' = s.calls
    /\ started' = s.started
    /\ outbox' = s.outbox
    /\ toast' = s.toast
    /\ unhandled' = s.unhandled
    /\ deleted' = s.deleted
    /\ dispatched' = s.dispatched
    /\ missed' = s.missed
    /\ received' = s.received

Is(s) ==
    /\ tracks = s.tracks
    /\ nextTrackId = s.nextTrackId
    /\ filteredTrackTexts = s.filteredTrackTexts
    /\ lastCall = s.lastCall
    /\ playbackState = s.playbackState
    /\ nextStartTime = s.nextStartTime
    /\ session = s.session
    /\ connectionError = s.connectionError
    /\ timers = s.timers
    /\ awaiting = s.awaiting
    /\ gain = s.gain
    /\ running = s.running
    /\ pausedAt = s.pausedAt
    /\ settings = s.settings
    /\ chosen = s.chosen
    /\ lastEnd = s.lastEnd
    /\ interrupted = s.interrupted
    /\ firstSched = s.firstSched
    /\ lastSeq = s.lastSeq
    /\ pub = s.pub
    /\ calls = s.calls
    /\ started = s.started
    /\ outbox = s.outbox
    /\ toast = s.toast
    /\ unhandled = s.unhandled
    /\ deleted = s.deleted
    /\ dispatched = s.dispatched
    /\ missed = s.missed
    /\ received = s.received

\* this.session?.cmd(arg): nothing when this.session is undefined
Send(s, cmd, arg) ==
    IF s.session = 0 THEN s
    ELSE [s EXCEPT !.outbox = Append(@, [cmd |-> cmd, to |-> s.session, arg |-> arg])]

\* this.toastMessage.show(msg)
Show(s, msg) == [s EXCEPT !.toast = Append(@, msg)]

\* Variant of pauseAudio: the session is told to stop.
pauseAudioSendsStop(s) ==
    [Send(s, "stop", <<>>) EXCEPT !.playbackState = "paused",
                                  !.nextStartTime = 0,
                                  !.gain = 1,
                                  !.pausedAt = chunkSeq,
                                  !.interrupted = TRUE]

\* pauseAudio (lines 1323-1332). The old node is ramped to 0 and left behind;
\* createGain gives the new one the default gain, 1.
pauseAudio(s) ==
    [Send(s, "pause", <<>>) EXCEPT !.playbackState = "paused",
                                   !.nextStartTime = 0,
                                   !.gain = 1,
                                   !.pausedAt = chunkSeq,
                                   !.interrupted = TRUE]

loadAudio(s) ==
    [Send(s, "play", <<>>) EXCEPT !.playbackState = "loading",
                                  !.running = TRUE,
                                  !.gain = 1,
                                  !.firstSched = -1]

\* Variant of stopAudio: the offset is left as it is.
stopAudioKeepsOffset(s) ==
    [Send(s, "stop", <<>>) EXCEPT !.playbackState = "stopped",
                                  !.gain = IF s.running THEN 0 ELSE @,
                                  !.interrupted = TRUE]

stopAudio(s) ==
    [Send(s, "stop", <<>>) EXCEPT !.playbackState = "stopped",
                                  !.gain = IF s.running THEN 0 ELSE @,
                                  !.nextStartTime = 0,
                                  !.interrupted = TRUE]

-----------------------------------------------------------------------------
(* SettingsController (lines 745-881): the generation config, the two auto  *)
(* flags and the last values of their sliders. Values are in tenths; of the *)
(* config only temperature, density and brightness are kept.                *)

\* The value of a `number | undefined` field that is undefined
undefined == -1

\* Variant of OrElse: a || b, which passes over 0 as well.
OrElseFalsy(a, b) == IF a = undefined \/ a = 0 THEN b ELSE a

\* a ?? b
OrElse(a, b) == IF a = undefined THEN b ELSE a

\* The 0.5 of lines 819, 822, 869 and 870
HalfWay == 5

\* SettingsController.defaultConfig (lines 750-752), its temperature
DefaultConfig == [temperature |-> 11]

SettingKeys == {"temperature", "density", "brightness"}

\* The field initialisers of lines 753-758
InitialSettings ==
    [config |-> [temperature |-> DefaultConfig.temperature,
                 density |-> undefined, brightness |-> undefined],
     autoDensity |-> TRUE, lastDefinedDensity |-> undefined,
     autoBrightness |-> TRUE, lastDefinedBrightness |-> undefined]

\* resetToDefaults (lines 763-771), before it dispatches
resetToDefaults(c) == InitialSettings

\* The detail of the settings-changed event of dispatchSettingsChange
\* (lines 859-881): a key that is left out is not in the domain.
dispatchSettingsChange(c) ==
    LET copied == {k \in SettingKeys : c.config[k] # undefined}
        density == IF c.autoDensity THEN copied \ {"density"}
                   ELSE copied \cup {"density"}
        brightness == IF c.autoBrightness THEN density \ {"brightness"}
                      ELSE density \cup {"brightness"}
        keys == brightness \cup {"temperature"}
    IN  [k \in keys |->
            CASE k = "density" -> OrElse(c.lastDefinedDensity, HalfWay)
              [] k = "brightness" -> OrElse(c.lastDefinedBrightness, HalfWay)
              [] OTHER -> OrElse(c.config.temperature, DefaultConfig.temperature)]

\* handleInputChange (lines 785-830), before it dispatches: key is target.id,
\* value the boolean of a checkbox or the number of a range input.
handleInputChange(c, key, value) ==
    CASE key = "auto-density" ->
            [c EXCEPT !.autoDensity = value,
                      !.config.density =
                          IF value THEN undefined
                          ELSE OrElse(c.lastDefinedDensity, HalfWay)]
      [] key = "auto-brightness" ->
            [c EXCEPT !.autoBrightness = value,
                      !.config.brightness =
                          IF value THEN undefined
                          ELSE OrElse(c.lastDefinedBrightness, HalfWay)]
      [] key = "density" ->
            [c EXCEPT !.lastDefinedDensity = value,
                      !.config.density = IF ~c.autoDensity THEN value ELSE @]
      [] key = "brightness" ->
            [c EXCEPT !.lastDefinedBrightness = value,
                      !.config.brightness = IF ~c.autoBrightness THEN value ELSE @]
      [] key = "temperature" ->
            [c EXCEPT !.config.temperature = value]

\* Bookkeeping: the value picked on a slider, and the control that was used.
Picked(ch, key, value) ==
    CASE key = "density" -> [ch EXCEPT !.density = value, !.by = key]
      [] key = "brightness" -> [ch EXCEPT !.brightness = value, !.by = key]
      [] OTHER -> [ch EXCEPT !.by = key]

-----------------------------------------------------------------------------
(* throttle (lines 39-49) and the two throttled publishers.                 *)

\* Variant of ThrottlePasses: half the delay is enough.
ThrottlePassesEarly(s, k) == DateNow - s.lastCall[k] >= ThrottleDelay \div 2

\* timeSinceLastCall >= delay
ThrottlePasses(s, k) == DateNow - s.lastCall[k] >= ThrottleDelay

\* Bookkeeping of a publish call: what it asked for, and whether it passed.
NoteCall(s, k, arg, passed) ==
    [s EXCEPT !.calls = Append(@, [kind |-> k, arg |-> arg, passed |-> passed]),
              !.pub[k].lastArg = <<arg>>,
              !.pub[k].windowCalls = IF passed THEN 1 ELSE 2,
              !.pub[k].windowSends = IF passed THEN 0 ELSE @]

\* Bookkeeping of a payload handed to the session.
NoteSend(s, k, arg) ==
    [s EXCEPT !.pub[k].lastSent = <<arg>>,
              !.pub[k].prevSentAt = s.pub[k].sentAt,
              !.pub[k].sentAt = DateNow,
              !.pub[k].windowSends = @ + 1]

\* The catch clause of lines 1254-1257
PromptsRejected(s) == pauseAudio(Show(s, "Error setting prompts"))

\* The async arrow function of setSessionWeightedPrompts (lines 1241-1258), up
\* to its await.  accept = FALSE: the promise that session.setWeightedPrompts
\* returns is rejected already, and the catch clause runs before anything
\* else does; accept = TRUE: the promise is pending and settles later.
SendPrompts(s, accept) ==
    LET promptsToSend == PromptsToSend(s.tracks, s.filteredTrackTexts)
        sent == NoteSend(Send(s, "setWeightedPrompts", promptsToSend), "prompts",
                         promptsToSend)
    IN  IF s.session = 0 THEN s
        ELSE IF accept THEN [sent EXCEPT !.awaiting = @ + 1]
        ELSE PromptsRejected(sent)

\* The promise of an async function rejected with nobody to catch it
Uncaught(s, cmd) == [s EXCEPT !.unhandled = Append(@, cmd)]

\* The async arrow function of updateSettings (lines 1406-1410): a rejection
\* of the awaited push is caught by nobody.
SendConfig(s, detail, accept) ==
    LET sent == NoteSend(Send(s, "setMusicGenerationConfig", detail), "config", detail)
    IN  IF s.session = 0 THEN s
        ELSE IF accept THEN sent
        ELSE Uncaught(sent, "setMusicGenerationConfig")

\* Variant of Throttled: the two publishers share one lastCall.
ThrottledTogether(s, k, sent) ==
    IF ThrottlePasses(s, k)
    THEN [sent EXCEPT !.lastCall = [j \in Kinds |-> DateNow]]
    ELSE s

\* throttle's returned closure (lines 41-48): `sent` is what func makes of s
Throttled(s, k, sent) ==
    IF ThrottlePasses(s, k)
    THEN [sent EXCEPT !.lastCall[k] = DateNow]
    ELSE s

setSessionWeightedPrompts(s, accept) ==
    LET noted == NoteCall(s, "prompts",
                          PromptsToSend(s.tracks, s.filteredTrackTexts),
                          ThrottlePasses(s, "prompts"))
    IN  Throttled(noted, "prompts", SendPrompts(noted, accept))

updateSettings(s, detail, accept) ==
    LET noted == NoteCall(s, "config", detail, ThrottlePasses(s, "config"))
    IN  Throttled(noted, "config", SendConfig(noted, detail, accept))

-----------------------------------------------------------------------------
(* Construction                                                             *)

\* A track id is `${word}-${n}`, `${word}-${other}` or `${word}`: second is
\* "num", "word" or "none".
Id(word, second, n) == [word |-> word, second |-> second, n |-> n]

\* parseInt(id.split('-')[1] || '0', 10), -1 standing for NaN
IdNumber(id) ==
    CASE id.second = "none" -> 0
      [] id.second = "num" -> id.n
      [] id.second = "word" -> -1

SetMax(S) == CHOOSE m \in S : \A x \in S : x <= m

\* this.nextTrackId as the constructor leaves it (lines 1170-1176)
InitialNextTrackId(ts) ==
    LET nums == {IdNumber(ts[i].trackId) : i \in 1..Len(ts)}
    IN  IF Len(ts) = 0 THEN 0
        ELSE IF -1 \in nums THEN Len(ts)
        ELSE SetMax(nums) + 1

Track(id, name, text, weight) ==
    [trackId |-> id, name |-> name, text |-> text, weight |-> weight]

\* Weights are in tenths: 10 is 1.0.
Drums == Track(Id("track", "num", 0), <<"D">>, <<"k">>, 10)
Bass == Track(Id("track", "num", 1), <<"B">>, <<" ">>, 10)

\* What getStoredTracks may return (lines 1488-1513)
StoredTracks == { <<>>, <<Drums>> }

NoPub == [lastArg |-> <<>>, lastSent |-> <<>>, sentAt |-> -1, prevSentAt |-> -1,
          windowCalls |-> 0, windowSends |-> 0]

\* The element as its constructor and field initialisers leave it
\* (lines 1147-1178), given the stored tracks.
Constructed(ts) ==
    [tracks |-> ts, nextTrackId |-> InitialNextTrackId(ts),
     filteredTrackTexts |-> {}, lastCall |-> [k \in Kinds |-> 0],
     playbackState |-> "stopped", nextStartTime |-> 0,
     session |-> 0, connectionError |-> TRUE,
     timers |-> <<>>, awaiting |-> 0,
     gain |-> 1, running |-> FALSE, settings |-> InitialSettings,
     pausedAt |-> 0,
     chosen |-> [density |-> undefined, brightness |-> undefined, by |-> "none"],
     lastEnd |-> -1, interrupted |-> FALSE,
     firstSched |-> -1, lastSeq |-> 0, pub |-> [k \in Kinds |-> NoPub],
     calls |-> <<>>, started |-> <<>>, outbox |-> <<>>, toast |-> <<>>,
     unhandled |-> <<>>, deleted |-> <<>>, dispatched |-> <<>>,
     missed |-> <<>>, received |-> 0]

Init ==
    /\ \E ts \in StoredTracks : Is(Constructed(ts))
    /\ now = 0
    /\ mounted = FALSE
    /\ sessions = [i \in SessionIds |-> "none"]
    /\ connects = <<>>
    /\ inflight = <<>>
    /\ chunkSeq = 0

-----------------------------------------------------------------------------
(* Time and timers                                                          *)

\* The clock advances by d; a timer that is due runs before it advances again.
Tick(d, max) ==
    /\ now + d <= max
    /\ \A i \in 1..Len(timers) : timers[i].due > now
    /\ now' = now + d
    /\ Commit(Self)
    /\ UNCHANGED <<mounted, sessions, connects, inflight, chunkSeq>>

RemoveAt(q, i) == SubSeq(q, 1, i - 1) \o SubSeq(q, i + 1, Len(q))

\* Timers run in the order of their deadlines, and of their arming among equals.
TimerIsNext(i) ==
    /\ timers[i].due <= now
    /\ \A j \in 1..Len(timers) :
          \/ timers[j].due > timers[i].due
          \/ timers[j].due = timers[i].due /\ j >= i

\* The callback of the setTimeout of line 1211
LookaheadElapsed(s) ==
    IF s.playbackState = "loading" THEN [s EXCEPT !.playbackState = "playing"] ELSE s

FireTimer(i) ==
    /\ TimerIsNext(i)
    /\ LET s == [Self EXCEPT !.timers = RemoveAt(timers, i)]
       IN  Commit(IF timers[i].kind = "lookahead" THEN LookaheadElapsed(s)
                  ELSE loadAudio(s))
    /\ UNCHANGED <<now, mounted, sessions, connects, inflight, chunkSeq>>

-----------------------------------------------------------------------------
(* The reset button: handleReset (lines 1412-1428) after its reconnect      *)

\* The delay of the setTimeout of line 1424
ResetDelay == 200

\* Lines 1419-1427. resetToDefaults (lines 763-771) dispatches settings-changed,
\* whose listener is updateSettings; accept: whether the session takes the push.
handleReset(s, accept) ==
    LET paused == pauseAudio(s)
        cleared == Send(paused, "resetContext", <<>>)
        defaults == updateSettings(
                        [cleared EXCEPT !.settings = resetToDefaults(@)],
                        dispatchSettingsChange(resetToDefaults(cleared.settings)),
                        accept)
        going == defaults.playbackState \notin {"stopped", "paused"}
    IN  IF going /\ ~defaults.connectionError
        THEN [defaults EXCEPT !.timers = Append(@, [kind |-> "resume",
                                                    due |-> now + ResetDelay])]
        ELSE IF defaults.connectionError /\ going
        THEN [defaults EXCEPT !.playbackState = "paused"]
        ELSE defaults

-----------------------------------------------------------------------------
(* The session: connectToSession (lines 1189-1239) and its callbacks        *)

Created == {i \in SessionIds : sessions[i] # "none"}
Alive == {i \in SessionIds : sessions[i] \in {"open", "ready"}}

\* A call of connectToSession, up to its await; `cont` names the caller that
\* resumes when ai.live.music.connect settles.
BeginConnect(cont) ==
    /\ Cardinality(Created) + Len(connects) < MaxSessions
    /\ connects' = Append(connects, cont)

\* What follows `await this.connectToSession()` in the caller.
AfterConnect(cont, s, accept) ==
    CASE cont = "firstUpdated" -> setSessionWeightedPrompts(s, accept)
      [] cont = "play" ->
            IF s.session = 0
            THEN Show(s, "Session not initialized after connect")
            ELSE LET published == setSessionWeightedPrompts(s, accept)
                 IN  IF ~published.connectionError THEN loadAudio(published)
                     ELSE published
      [] cont = "reset" ->
            IF s.session = 0
            THEN Show(s, "Session not initialized after connect")
            ELSE handleReset(s, accept)

\* ai.live.music.connect settles: with a new session, or by throwing.
ConnectSettles(i, connected, accept) ==
    /\ connects' = RemoveAt(connects, i)
    /\ IF connected
       THEN LET id == Cardinality(Created) + 1
            IN  /\ sessions' = [sessions EXCEPT ![id] = "open"]
                /\ Commit(AfterConnect(connects[i], [Self EXCEPT !.session = id], accept))
       ELSE /\ sessions' = sessions
            /\ Commit(AfterConnect(connects[i],
                   Show([Self EXCEPT !.connectionError = TRUE],
                        "Failed to initialize music session. Check API Key and connection."),
                   accept))
    /\ UNCHANGED <<now, mounted, inflight, chunkSeq>>

\* firstUpdated (lines 1180-1183), up to its await
FirstUpdated ==
    /\ ~mounted
    /\ mounted' = TRUE
    /\ BeginConnect("firstUpdated")
    /\ Commit(Self)
    /\ UNCHANGED <<now, sessions, inflight, chunkSeq>>

\* onmessage, e.setupComplete (line 1196)
OnSetupComplete(sid) ==
    /\ sessions[sid] = "open"
    /\ sessions' = [sessions EXCEPT ![sid] = "ready"]
    /\ Commit([Self EXCEPT !.connectionError = FALSE])
    /\ UNCHANGED <<now, mounted, connects, inflight, chunkSeq>>

\* onmessage, e.filteredPrompt (lines 1197-1201)
OnFilteredPrompt(sid, text) ==
    /\ sid \in Alive
    /\ Commit(Show([Self EXCEPT !.filteredTrackTexts = @ \cup {text}],
                   "filteredReason"))
    /\ UNCHANGED <<now, mounted, sessions, connects, inflight, chunkSeq>>

\* onerror (lines 1222-1226)
OnError(sid) ==
    /\ sid \in Alive
    /\ sessions' = [sessions EXCEPT ![sid] = "errored"]
    /\ Commit(Show(stopAudio([Self EXCEPT !.connectionError = TRUE]),
                   "Connection error, please restart audio."))
    /\ UNCHANGED <<now, mounted, connects, inflight, chunkSeq>>

\* onclose (lines 1227-1231)
OnClose(sid) ==
    /\ sessions[sid] \in {"open", "ready", "errored"}
    /\ sessions' = [sessions EXCEPT ![sid] = "closed"]
    /\ Commit(Show(stopAudio([Self EXCEPT !.connectionError = TRUE]),
                   "Connection closed, please restart audio."))
    /\ UNCHANGED <<now, mounted, connects, inflight, chunkSeq>>

-----------------------------------------------------------------------------
(* The playback scheduler: onmessage with audio chunks (lines 1202-1220)     *)

\* Variant of Discards: only a stopped player discards.
DiscardsWhenStopped(state) == state = "stopped"

\* The test of line 1203
Discards(state) == state \in {"paused", "stopped"}

\* The message arrives: discarded when paused or stopped, else its first
\* chunk goes to decodeAudioData, which is awaited.
OnAudioChunks(sid) ==
    /\ sid \in Alive
    /\ chunkSeq < MaxChunks
    /\ chunkSeq' = chunkSeq + 1
    /\ inflight' = IF Discards(playbackState) THEN inflight
                   ELSE Append(inflight, [from |-> sid, seq |-> chunkSeq + 1])
    /\ Commit([Self EXCEPT !.received = 1])
    /\ UNCHANGED <<now, mounted, sessions, connects>>

\* The same handler for a message whose audioChunks has n elements: line 1205
\* reads audioChunks[0] and nothing reads the others.
OnAudioMessage(sid, n) ==
    /\ sid \in Alive
    /\ chunkSeq < MaxChunks
    /\ chunkSeq' = chunkSeq + 1
    /\ inflight' = IF Discards(playbackState) THEN inflight
                   ELSE Append(inflight, [from |-> sid, seq |-> chunkSeq + 1])
    /\ Commit([Self EXCEPT !.received = n])
    /\ UNCHANGED <<now, mounted, sessions, connects>>

\* Variant of ArmLookahead: every buffer arms a deadline.
ArmLookaheadEachTime(s) ==
    [s EXCEPT !.nextStartTime = IF @ = 0 THEN currentTime + bufferTime ELSE @,
              !.timers = Append(@, [kind |-> "lookahead",
                                    due |-> now + bufferTime])]

\* lines 1209-1212: the first buffer sets the offset and arms the deadline
ArmLookahead(s) ==
    IF s.nextStartTime = 0
    THEN [s EXCEPT !.nextStartTime = currentTime + bufferTime,
                   !.timers = Append(@, [kind |-> "lookahead",
                                         due |-> now + bufferTime])]
    ELSE s

\* Variant of Underrun: the boundary offset = now counts as an underrun too.
UnderrunAtBoundary(s) == s.nextStartTime <= currentTime

\* line 1213
Underrun(s) == s.nextStartTime < currentTime

\* lines 1213-1217: the underrun branch
RecoverUnderrun(s) ==
    IF Underrun(s)
    THEN [s EXCEPT !.playbackState = "loading",
                   !.nextStartTime = currentTime + bufferTime \div 2,
                   !.interrupted = TRUE]
    ELSE s

\* line 1218: source.start(this.nextStartTime)
Start(s, duration) ==
    [s EXCEPT !.started = Append(@, [start |-> s.nextStartTime,
                                     duration |-> duration,
                                     gapless |-> ~s.interrupted,
                                     after |-> s.lastEnd]),
              !.lastEnd = s.nextStartTime + duration,
              !.interrupted = FALSE,
              !.firstSched = IF @ = -1 THEN now ELSE @]

\* Variant of AdvanceOffset: the offset is left where it was.
AdvanceOffsetStalled(s, duration) == s

\* line 1219
AdvanceOffset(s, duration) == [s EXCEPT !.nextStartTime = @ + duration]

\* Lines 1206-1219, which follow the await of decodeAudioData
Schedule(s, duration) ==
    AdvanceOffset(Start(RecoverUnderrun(ArmLookahead(s)), duration), duration)

\* Bookkeeping: the arrival number of the chunk whose buffer was handed over,
\* and that of the chunk handed over before it; whether the chunk arrived
\* before outputNode was last replaced, and the gain of the node its source
\* is connected to (line 1208).
Numbered(s, seq) ==
    [s EXCEPT !.started = <<[seq |-> seq, prevSeq |-> s.lastSeq,
                             stale |-> seq <= s.pausedAt, gain |-> s.gain,
                             start |-> s.started[1].start,
                             duration |-> s.started[1].duration,
                             gapless |-> s.started[1].gapless,
                             after |-> s.started[1].after]>>,
              !.lastSeq = seq]

\* Variant of DropChunk: the failure stops playback.
DropChunkAndStop(s) == stopAudio(Uncaught(s, "decodeAudioData"))

\* The await of line 1204 throws: onmessage is an async function with no
\* try, so its promise rejects and the lines after the await do not run.
DropChunk(s) == Uncaught(s, "decodeAudioData")

\* decodeAudioData settles for the i-th chunk in flight: it throws, or the
\* buffer is scheduled.
DecodeSettles(i, outcome, duration) ==
    /\ outcome = "ok" /\ nextStartTime = 0 => Len(timers) < MaxTimers
    /\ inflight' = RemoveAt(inflight, i)
    /\ Commit(IF outcome = "fail" THEN DropChunk(Self)
              ELSE Numbered(Schedule(Self, duration), inflight[i].seq))
    /\ UNCHANGED <<now, mounted, sessions, connects, chunkSeq>>

-----------------------------------------------------------------------------
(* The play/pause control: handlePlayPause (lines 1310-1322)                *)

HandlePlayPause ==
    /\ mounted
    /\ CASE playbackState = "playing" ->
               Commit(pauseAudio(Self)) /\ connects' = connects
         [] playbackState \in {"paused", "stopped"} ->
               IF connectionError
               THEN BeginConnect("play") /\ Commit(Self)
               ELSE Commit(loadAudio(Self)) /\ connects' = connects
         [] playbackState = "loading" ->
               Commit(stopAudio(Self)) /\ connects' = connects
    /\ UNCHANGED <<now, mounted, sessions, inflight, chunkSeq>>

\* The reset button is clicked: handleReset (lines 1412-1428), up to its await
\* when it has to reconnect, whole otherwise.
HandleReset(accept) ==
    /\ mounted
    /\ IF connectionError
       THEN BeginConnect("reset") /\ Commit(Self)
       ELSE Commit(handleReset(Self, accept)) /\ connects' = connects
    /\ UNCHANGED <<now, mounted, sessions, inflight, chunkSeq>>

-----------------------------------------------------------------------------
(* Editing the tracks and the settings                                      *)

Range(q) == {q[i] : i \in 1..Len(q)}

\* new Map(this.tracks).set(track.trackId, track): in place when the key
\* exists, at the end otherwise
MapSet(ts, track) ==
    IF \E i \in 1..Len(ts) : ts[i].trackId = track.trackId
    THEN [i \in 1..Len(ts) |-> IF ts[i].trackId = track.trackId THEN track ELSE ts[i]]
    ELSE Append(ts, track)

\* new Map(this.tracks).delete(trackId)
MapDelete(ts, id) == SelectSeq(ts, LAMBDA t : t.trackId # id)

\* Variant of dispatchTracksChange: the event goes out only when the publish
\* call before it passed the throttle.
dispatchTracksChangeWhenSent(s) ==
    IF \E j \in 1..Len(s.calls) : s.calls[j].passed
    THEN [s EXCEPT !.dispatched = Append(@, s.tracks)]
    ELSE s

\* dispatchTracksChange (lines 1260-1262)
dispatchTracksChange(s) == [s EXCEPT !.dispatched = Append(@, s.tracks)]

\* this.tracks.get(id) gave undefined, or this.tracks.has(id) false
Miss(s, how) == [s EXCEPT !.missed = Append(@, how)]

\* Variant of handleTrackChanged: filteredTrackTexts is left as it is.
handleTrackChangedKeepsFilter(s, changedTrack, accept) ==
    IF \A i \in 1..Len(s.tracks) : s.tracks[i].trackId # changedTrack.trackId
    THEN Miss(s, "get")
    ELSE dispatchTracksChange(setSessionWeightedPrompts(
             [s EXCEPT !.tracks = MapSet(@, changedTrack)], accept))

\* handleTrackChanged (lines 1264-1283); accept: see SendPrompts
handleTrackChanged(s, changedTrack, accept) ==
    IF \A i \in 1..Len(s.tracks) : s.tracks[i].trackId # changedTrack.trackId
    THEN Miss(s, "get")
    ELSE LET track == CHOOSE t \in Range(s.tracks) : t.trackId = changedTrack.trackId
             oldText == track.text
             unfiltered ==
                 IF oldText \in s.filteredTrackTexts /\ oldText # changedTrack.text
                 THEN [s EXCEPT !.filteredTrackTexts = @ \ {oldText},
                                !.deleted = Append(@, oldText)]
                 ELSE s
         IN  dispatchTracksChange(setSessionWeightedPrompts(
                 [unfiltered EXCEPT !.tracks = MapSet(@, changedTrack)], accept))

\* TrackController.updateName (lines 519-527) on the i-th track, and the
\* track-changed event it dispatches
UpdateName(i, value, accept) ==
    /\ i \in 1..Len(tracks)
    /\ Trim(value) # <<>>
    /\ Trim(value) # tracks[i].name
    /\ Commit(handleTrackChanged(Self, [tracks[i] EXCEPT !.name = Trim(value)], accept))
    /\ UNCHANGED <<now, mounted, sessions, connects, inflight, chunkSeq>>

\* TrackController.updatePromptText (lines 529-536) on the i-th track, and the
\* track-changed event it dispatches
UpdatePromptText(i, value, accept) ==
    /\ i \in 1..Len(tracks)
    /\ Trim(value) # tracks[i].text
    /\ Commit(handleTrackChanged(Self, [tracks[i] EXCEPT !.text = Trim(value)], accept))
    /\ UNCHANGED <<now, mounted, sessions, connects, inflight, chunkSeq>>

\* TrackController.updateWeight (lines 538-541) on the i-th track
UpdateWeight(i, value, accept) ==
    /\ i \in 1..Len(tracks)
    /\ Commit(handleTrackChanged(Self, [tracks[i] EXCEPT !.weight = value], accept))
    /\ UNCHANGED <<now, mounted, sessions, connects, inflight, chunkSeq>>

\* The track-changed listener (line 1471), for any event detail
HandleTrackChanged(changedTrack, accept) ==
    /\ Commit(handleTrackChanged(Self, changedTrack, accept))
    /\ UNCHANGED <<now, mounted, sessions, connects, inflight, chunkSeq>>

Digits == <<"0", "1", "2", "3", "4", "5", "6", "7", "8", "9">>

\* `${n}` for 0 <= n <= 9
NumStr(n) == <<Digits[n + 1]>>

\* 'Describe this musical part...'
DefaultText == <<"d">>

\* handleAddTrackFromInput (lines 1349-1383); value is newTrackInput.value
HandleAddTrackFromInput(value, accept) ==
    LET trackNameOrPrompt == Trim(value)
        newTrackId == Id("track", "num", nextTrackId)
        bumped == nextTrackId + 1
        isName == Len(trackNameOrPrompt) <= 20 /\ " " \notin Range(trackNameOrPrompt)
        name == IF isName THEN trackNameOrPrompt
                ELSE <<"T", "r", "a", "c", "k", " ">> \o NumStr(bumped)
        text == IF isName THEN DefaultText ELSE trackNameOrPrompt
        newTrack == Track(newTrackId, name, text, 5)
    IN  /\ trackNameOrPrompt # <<>> =>
              Len(MapSet(tracks, newTrack)) <= MaxTracks /\ nextTrackId < MaxTrackId
        /\ Commit(IF trackNameOrPrompt = <<>>
                  THEN Show(Self, "Please enter a name or prompt for the new track.")
                  ELSE dispatchTracksChange(setSessionWeightedPrompts(
                           [Self EXCEPT !.nextTrackId = bumped,
                                        !.tracks = MapSet(@, newTrack)], accept)))
        /\ UNCHANGED <<now, mounted, sessions, connects, inflight, chunkSeq>>

\* handleTrackRemoved (lines 1389-1404)
HandleTrackRemoved(trackIdToRemove, accept) ==
    /\ Commit(IF \A i \in 1..Len(tracks) : tracks[i].trackId # trackIdToRemove
              THEN Miss(Self, "has")
              ELSE LET track == CHOOSE t \in Range(tracks) : t.trackId = trackIdToRemove
                       unfiltered ==
                           IF track.text \in filteredTrackTexts
                           THEN [Self EXCEPT !.filteredTrackTexts = @ \ {track.text},
                                             !.deleted = Append(@, track.text)]
                           ELSE Self
                   IN  dispatchTracksChange(setSessionWeightedPrompts(
                           [unfiltered EXCEPT !.tracks = MapDelete(@, trackIdToRemove)],
                           accept)))
    /\ UNCHANGED <<now, mounted, sessions, connects, inflight, chunkSeq>>

\* A pending promise of session.setWeightedPrompts settles: the async arrow
\* function ends (resolved), or its catch clause runs (rejected).
PromptsSettle(resolved) ==
    /\ awaiting > 0
    /\ LET s == [Self EXCEPT !.awaiting = @ - 1]
       IN  Commit(IF resolved THEN s ELSE PromptsRejected(s))
    /\ UNCHANGED <<now, mounted, sessions, connects, inflight, chunkSeq>>

\* A checkbox or slider of the settings controller is used: handleInputChange
\* (lines 785-830), the event it dispatches and the listener of that event.
HandleInputChange(key, value, accept) ==
    /\ LET changed == handleInputChange(settings, key, value)
       IN  Commit(updateSettings([Self EXCEPT !.settings = changed,
                                              !.chosen = Picked(@, key, value)],
                                 dispatchSettingsChange(changed), accept))
    /\ UNCHANGED <<now, mounted, sessions, connects, inflight, chunkSeq>>

\* The settings-changed listener (line 1451)
OnSettingsChanged(detail, accept) ==
    /\ Commit(updateSettings(Self, detail, accept))
    /\ UNCHANGED <<now, mounted, sessions, connects, inflight, chunkSeq>>

-----------------------------------------------------------------------------
(* The element with its session: mounting, connecting, the session's        *)
(* lifecycle events and the play/pause control.                             *)

Next ==
    \/ FirstUpdated
    \/ \E i \in 1..Len(connects), connected, accept \in BOOLEAN :
          ConnectSettles(i, connected, accept)
    \/ \E sid \in SessionIds : OnSetupComplete(sid)
    \/ \E sid \in SessionIds : OnError(sid)
    \/ \E sid \in SessionIds : OnClose(sid)
    \/ \E resolved \in BOOLEAN : PromptsSettle(resolved)
    \/ HandlePlayPause
    \/ \E d \in CoarseSteps : Tick(d, MaxTime)

Spec == Init /\ [][Next]_vars

-----------------------------------------------------------------------------
(* The scheduler, from the state in which the first session is set up: the  *)
(* play/pause control, the chunk stream, decoding, timers, session errors.  *)

\* Mounted, connected at time 0, the prompts of firstUpdated sent and their
\* promise resolved, and setupComplete received.
Ready(ts) ==
    [AfterConnect("firstUpdated", [Constructed(ts) EXCEPT !.session = 1], TRUE)
        EXCEPT !.connectionError = FALSE, !.awaiting = 0,
               !.calls = <<>>, !.outbox = <<>>]

InitReady(ts) ==
    /\ now = 0
    /\ Is(Ready(ts))
    /\ mounted = TRUE
    /\ sessions = [i \in SessionIds |-> IF i = 1 THEN "ready" ELSE "none"]
    /\ connects = <<>>
    /\ inflight = <<>>
    /\ chunkSeq = 0

InitPlay == InitReady(<<Drums>>)

NextPlay ==
    \/ \E sid \in SessionIds : OnAudioChunks(sid)
    \/ \E i \in 1..Len(inflight), outcome \in DecodeOutcomes, duration \in Durations :
          DecodeSettles(i, outcome, duration)
    \/ \E i \in 1..Len(timers) : FireTimer(i)
    \/ HandlePlayPause
    \/ \E sid \in SessionIds : OnError(sid)
    \/ \E sid \in SessionIds : OnClose(sid)
    \/ \E d \in CoarseSteps : Tick(d, MaxTime)

SpecPlay == InitPlay /\ [][NextPlay]_vars

-----------------------------------------------------------------------------
(* The throttled publishers, from the same state: weight edits, setting     *)
(* changes, the loss of the session, and the clock in steps finer than the  *)
(* throttle delay.                                                          *)

\* What the user drags and picks
WeightInputs == {0, 5}
ConfigInputs == {[temperature |-> 11], [temperature |-> 20]}

InitPub == InitReady(<<Drums>>)

NextPub ==
    \/ \E i \in 1..MaxTracks, value \in WeightInputs : UpdateWeight(i, value, TRUE)
    \/ \E detail \in ConfigInputs, accept \in BOOLEAN : OnSettingsChanged(detail, accept)
    \/ \E sid \in SessionIds : OnError(sid)
    \/ \E sid \in SessionIds : OnClose(sid)
    \/ \E d \in FineSteps : Tick(d, MaxPubTime)

SpecPub == InitPub /\ [][NextPub]_vars

-----------------------------------------------------------------------------
(* The track list, from the same state with a second stored track: edits,   *)
(* additions, removals and filtered-prompt notices.                         *)

\* What the user types, and what the service reports as filtered
TextInputs == {<<"k">>, <<" ">>}
AddInputs == {<<" ">>, <<"B", " ">>, <<"a", " ", "b">>}
FilteredTexts == {<<"k">>}
MuteInputs == {0}
TrackIds == {Id("track", "num", n) : n \in 0..MaxTrackId}

InitEdit == InitReady(<<Drums, Bass>>)

NextEdit ==
    \/ \E i \in 1..MaxTracks, value \in TextInputs : UpdatePromptText(i, value, TRUE)
    \/ \E i \in 1..MaxTracks, value \in MuteInputs : UpdateWeight(i, value, TRUE)
    \/ \E value \in AddInputs : HandleAddTrackFromInput(value, TRUE)
    \/ \E id \in TrackIds : HandleTrackRemoved(id, TRUE)
    \/ \E sid \in SessionIds, text \in FilteredTexts : OnFilteredPrompt(sid, text)
    \/ \E d \in CoarseSteps : Tick(d, MaxEditTime)

SpecEdit == InitEdit /\ [][NextEdit]_vars

-----------------------------------------------------------------------------
(* The scheduler with the reset button: resets, and the reconnect a reset   *)
(* makes after a session error. Every chunk decodes, to a buffer as long as *)
(* the lookahead.                                                           *)

NextReset ==
    \/ \E sid \in SessionIds : OnAudioChunks(sid)
    \/ \E i \in 1..Len(inflight) : DecodeSettles(i, "ok", bufferTime)
    \/ \E i \in 1..Len(timers) : FireTimer(i)
    \/ HandlePlayPause
    \/ HandleReset(TRUE)
    \/ \E sid \in SessionIds : OnError(sid)
    \/ \E i \in 1..Len(connects) : ConnectSettles(i, TRUE, TRUE)
    \/ \E sid \in SessionIds : OnSetupComplete(sid)
    \/ \E d \in CoarseSteps : Tick(d, MaxResetTime)

SpecReset == InitPlay /\ [][NextReset]_vars

-----------------------------------------------------------------------------
(* The page as it starts: the element is constructed and mounted, the       *)
(* session connects, and the user already mutes tracks and moves settings.  *)

NextStart ==
    \/ FirstUpdated
    \/ \E i \in 1..Len(connects), connected \in BOOLEAN :
          ConnectSettles(i, connected, TRUE)
    \/ \E i \in 1..MaxTracks, value \in MuteInputs : UpdateWeight(i, value, TRUE)
    \/ \E detail \in ConfigInputs : OnSettingsChanged(detail, TRUE)
    \/ \E d \in FineSteps : Tick(d, MaxPubTime)

SpecStart == Init /\ [][NextStart]_vars

-----------------------------------------------------------------------------
(* The settings controller: auto checkboxes and sliders, and the configs    *)
(* that reach the throttled publisher.                                      *)

AutoKeys == {"auto-density", "auto-brightness"}
SliderInputs == {<<"density", 0>>, <<"density", 8>>, <<"brightness", 3>>,
                 <<"temperature", 20>>}

NextSettings ==
    \/ \E key \in AutoKeys, value \in BOOLEAN : HandleInputChange(key, value, TRUE)
    \/ \E input \in SliderInputs : HandleInputChange(input[1], input[2], TRUE)
    \/ \E d \in FineSteps : Tick(d, MaxPubTime)

SpecSettings == InitPub /\ [][NextSettings]_vars

-----------------------------------------------------------------------------
(* Track ids, from every kind of stored list: tracks are added, muted and   *)
(* removed.                                                                  *)

\* A stored track whose id has no number after the hyphen
Lead == Track(Id("track", "word", 0), <<"L">>, <<"k">>, 10)
Pad == Track(Id("track", "num", 2), <<"P">>, <<"k">>, 10)

\* Lists that JSON.parse of localStorage's 'tracks' may give (lines 1490-1494)
LoadedTracks == {<<>>, <<Drums>>, <<Drums, Bass>>, <<Pad>>, <<Lead>>, <<Lead, Pad>>}

LoadedIds == TrackIds \cup {Lead.trackId}
NewInputs == {<<"B", " ">>}

InitIds == \E ts \in LoadedTracks : InitReady(ts)

NextIds ==
    \/ \E value \in NewInputs : HandleAddTrackFromInput(value, TRUE)
    \/ \E id \in LoadedIds : HandleTrackRemoved(id, TRUE)
    \/ \E i \in 1..MaxTracks, value \in MuteInputs : UpdateWeight(i, value, TRUE)
    \/ \E d \in CoarseSteps : Tick(d, MaxEditTime)

SpecIds == InitIds /\ [][NextIds]_vars

-----------------------------------------------------------------------------
(* The tracks that are there, changed: name, text and weight edits between  *)
(* filtered-prompt notices.                                                  *)

NameInputs == {<<"E", " ">>, <<" ">>}

NextChange ==
    \/ \E i \in 1..MaxTracks, value \in NameInputs : UpdateName(i, value, TRUE)
    \/ \E i \in 1..MaxTracks, value \in TextInputs : UpdatePromptText(i, value, TRUE)
    \/ \E i \in 1..MaxTracks, value \in MuteInputs : UpdateWeight(i, value, TRUE)
    \/ \E sid \in SessionIds, text \in FilteredTexts : OnFilteredPrompt(sid, text)
    \/ \E d \in CoarseSteps : Tick(d, MaxEditTime)

SpecChange == InitEdit /\ [][NextChange]_vars

-----------------------------------------------------------------------------
(* The three handlers that change this.tracks, for any track id, known or   *)
(* not, with publishes that the session accepts or rejects, within one      *)
(* throttle window and after it.                                            *)

ChangedInputs ==
    {Track(id, <<"D">>, text, weight) :
        id \in TrackIds, text \in TextInputs, weight \in MuteInputs \cup {10}}

NextNotify ==
    \/ \E changedTrack \in ChangedInputs, accept \in BOOLEAN :
          HandleTrackChanged(changedTrack, accept)
    \/ \E value \in AddInputs, accept \in BOOLEAN :
          HandleAddTrackFromInput(value, accept)
    \/ \E id \in TrackIds, accept \in BOOLEAN : HandleTrackRemoved(id, accept)
    \/ \E d \in CoarseSteps : Tick(d, MaxEditTime)

SpecNotify == InitEdit /\ [][NextNotify]_vars

-----------------------------------------------------------------------------
(* A run in which nobody pauses, stops or loses the session: play has been  *)
(* pressed, chunks stream in, the user mutes tracks, prompt pushes settle.  *)

\* The user has pressed play at time 0.
InitRun ==
    /\ now = 0
    /\ Is([loadAudio(Ready(<<Drums>>)) EXCEPT !.outbox = <<>>])
    /\ mounted = TRUE
    /\ sessions = [i \in SessionIds |-> IF i = 1 THEN "ready" ELSE "none"]
    /\ connects = <<>>
    /\ inflight = <<>>
    /\ chunkSeq = 0

NextRun ==
    \/ \E sid \in SessionIds : OnAudioChunks(sid)
    \/ \E i \in 1..Len(inflight), outcome \in DecodeOutcomes, duration \in Durations :
          DecodeSettles(i, outcome, duration)
    \/ \E i \in 1..Len(timers) : FireTimer(i)
    \/ \E i \in 1..MaxTracks, value \in MuteInputs, accept \in BOOLEAN :
          UpdateWeight(i, value, accept)
    \/ \E resolved \in BOOLEAN : PromptsSettle(resolved)
    \/ \E d \in CoarseSteps : Tick(d, MaxTime)

SpecRun == InitRun /\ [][NextRun]_vars

-----------------------------------------------------------------------------
(* One run: play has been pressed, and from then on only chunks arrive,     *)
(* decodes settle and time passes.                                          *)

NextFirstRun ==
    \/ \E sid \in SessionIds : OnAudioChunks(sid)
    \/ \E i \in 1..Len(inflight), outcome \in DecodeOutcomes, duration \in Durations :
          DecodeSettles(i, outcome, duration)
    \/ \E i \in 1..Len(timers) : FireTimer(i)
    \/ \E d \in CoarseSteps : Tick(d, MaxTime)

SpecFirstRun == InitRun /\ [][NextFirstRun]_vars

-----------------------------------------------------------------------------
(* One run with messages of one or more chunks, the play/pause control and  *)
(* time.                                                                    *)

NextBatch ==
    \/ \E sid \in SessionIds, n \in 1..MaxPerMessage : OnAudioMessage(sid, n)
    \/ \E i \in 1..Len(inflight), outcome \in DecodeOutcomes, duration \in Durations :
          DecodeSettles(i, outcome, duration)
    \/ \E i \in 1..Len(timers) : FireTimer(i)
    \/ HandlePlayPause
    \/ \E d \in CoarseSteps : Tick(d, MaxTime)

SpecBatch == InitRun /\ [][NextBatch]_vars

-----------------------------------------------------------------------------
(* Properties of the element with its session                               *)

\* The edges of the playback state machine as the specification draws it
StatedEdges ==
    {<<"stopped", "loading">>, <<"paused", "loading">>, <<"loading", "playing">>,
     <<"playing", "loading">>, <<"playing", "paused">>, <<"loading", "paused">>}
    \cup {<<from, "stopped">> : from \in {"loading", "playing", "paused"}}

\* C12 (as stated): playbackState changes along the stated edges only; in
\* particular never from stopped to paused.
C12_StatedEdgesOnly ==
    [][playbackState' # playbackState
          => <<playbackState, playbackState'>> \in StatedEdges]_vars

\* A buffer was handed to the device in the last step.
Handed == started # <<>>

\* The notices of onerror and onclose
LostNotices ==
    {"Connection error, please restart audio.",
     "Connection closed, please restart audio."}

\* C13: a step in which a session reports an error or closes ends with
\* connectionError set, playbackState stopped, the offset unset and the user
\* notified, whatever the playback state was; a close does what an error does.
C13_ErrorOrCloseStops ==
    [][\A sid \in SessionIds :
          sessions'[sid] # sessions[sid] /\ sessions'[sid] \in {"errored", "closed"}
              => /\ connectionError'
                 /\ playbackState' = "stopped"
                 /\ nextStartTime' = 0
                 /\ Len(toast') = 1 /\ toast'[1] \in LostNotices
                 /\ toast'[1] = IF sessions'[sid] = "errored"
                                THEN "Connection error, please restart audio."
                                ELSE "Connection closed, please restart audio."]_vars

\* An error or close has just been handled in the middle of a run: a decode is
\* still awaited and buffers had been scheduled.
C13_Witness ==
    /\ toast # <<>> /\ toast[1] \in LostNotices
    /\ playbackState = "stopped" /\ connectionError /\ nextStartTime = 0
    /\ inflight # <<>> /\ lastEnd # -1

\* The last step was the onerror or the onclose callback.
LossHandled == toast # <<>> /\ toast[1] \in LostNotices

\* C14 (as stated): once its session has reported an error or closed, the
\* element issues no publish and no control command to it: whatever is issued
\* after the callback itself goes to a session whose connection is up.
C14_NoSendWhileDown ==
    ~LossHandled =>
        \A j \in 1..Len(outbox) : sessions[outbox[j].to] \in {"open", "ready"}

\* this.loadAudio() ran in the last step.
PlayIssued == \E i \in 1..Len(outbox) : outbox[i].cmd = "play"

\* The catch clause of connectToSession ran in the last step.
ConnectFailed ==
    \E j \in 1..Len(toast) :
        toast[j] = "Failed to initialize music session. Check API Key and connection."

\* C29 (as stated): in the step that resumes handlePlayPause after its
\* reconnect, play goes out and the state becomes loading only with
\* connectionError clear afterwards; and when the reconnect failed, no play
\* goes out and playbackState is as it was.
C29_PlayAfterReconnect ==
    [][\A i \in 1..Len(connects) :
          connects[i] = "play" /\ connects' = RemoveAt(connects, i) =>
              /\ PlayIssued' => ~connectionError' /\ playbackState' = "loading"
              /\ playbackState' = "loading" /\ playbackState # "loading" =>
                    PlayIssued' /\ ~connectionError'
              /\ ConnectFailed' => ~PlayIssued' /\ playbackState' = playbackState]_vars

\* The session was lost (onerror or onclose ran) and neither the play nor the
\* reset control has been used since: either would have called
\* connectToSession, and a player that is stopped after a loss has
\* connectionError set.
LostAndUntouched ==
    /\ connectionError
    /\ playbackState = "stopped"
    /\ connects = <<>>

\* C30 (as stated): once the page has started, connectToSession is called
\* again only by the play or the reset control, and after the session was lost playbackState stays stopped
\* in every step that is not the use of one of the two.
C30_NoAutomaticRecovery ==
    [][/\ mounted /\ Len(connects') > Len(connects) =>
             connects'[Len(connects')] \in {"play", "reset"}
       /\ LostAndUntouched /\ connects' = <<>> => playbackState' = "stopped"]_vars

\* C32 (as stated): playbackState goes from paused or stopped to loading or
\* playing only in a step in which loadAudio ran, which the play control and
\* nothing else calls here.
C32_OnlyPlayLeavesHalt ==
    [][/\ playbackState \in {"paused", "stopped"}
       /\ playbackState' \in {"loading", "playing"}
       => PlayIssued']_vars

\* C33 (as stated): with connectionError set the player is stopped or paused.
C33_HaltedWhileDown ==
    connectionError => playbackState \in {"stopped", "paused"}

\* Session sid was created before this.session and is no longer it.
Superseded(sid) == session # 0 /\ sid # session /\ sessions[sid] # "none"

\* C34 (as stated): a step in which a superseded session errors, closes or
\* delivers an audio chunk leaves connectionError and playbackState as they
\* were, sends nothing to any session and puts no chunk in the decoder.
C34_SupersededIgnored ==
    [][\A sid \in SessionIds :
          /\ Superseded(sid)
          /\ \/ sessions'[sid] # sessions[sid] /\ sessions'[sid] \in {"errored", "closed"}
             \/ chunkSeq' # chunkSeq /\ sid \in Alive /\ Alive \ {sid} = {}
          => /\ connectionError' = connectionError
             /\ playbackState' = playbackState
             /\ outbox' = <<>>
             /\ inflight' = inflight]_vars

\* C35 (as stated): when the step that resumes handlePlayPause after its
\* reconnect has a new session and issues play to it, the current prompt list
\* has gone to that session earlier in the same step.
C35_PromptsBeforePlay ==
    [][\A i \in 1..Len(connects) :
          /\ connects[i] = "play"
          /\ connects' = RemoveAt(connects, i)
          /\ session' # session
          => \A j \in 1..Len(outbox') :
                outbox'[j].cmd = "play" /\ outbox'[j].to = session' =>
                    \E k \in 1..(j - 1) :
                        /\ outbox'[k].cmd = "setWeightedPrompts"
                        /\ outbox'[k].to = session'
                        /\ outbox'[k].arg
                             = PromptsToSend(tracks', filteredTrackTexts')]_vars

\* The source of the buffer last handed over is connected to the node that
\* is this.outputNode now: its chunk arrived after the node was last replaced.
OnCurrentNode == lastSeq > pausedAt

\* C37 (as stated): when play follows a stop, no buffer is queued on
\* this.outputNode that still sounds after the gain is back at 1.
C37_StopSilencesQueue ==
    [][playbackState = "stopped" /\ PlayIssued' =>
          ~(OnCurrentNode' /\ lastEnd' > now' + RampUp)]_vars

\* The one command cmd went to this.session in the last step.
Issued(cmd) == outbox = <<[cmd |-> cmd, to |-> session, arg |-> <<>>]>>

\* C38: a step of the play/pause control pauses a playing player, stops a
\* loading one and, with connectionError clear, loads a paused or stopped
\* one; each time the one matching command goes to this.session.
C38_ControlMapsStates ==
    [][HandlePlayPause =>
          /\ playbackState = "playing" =>
                playbackState' = "paused" /\ Issued("pause")'
          /\ playbackState = "loading" =>
                playbackState' = "stopped" /\ Issued("stop")'
          /\ playbackState \in {"paused", "stopped"} /\ ~connectionError =>
                playbackState' = "loading" /\ Issued("play")']_vars

\* The control has paused a playing player whose connection is up.
C38_Witness ==
    /\ playbackState = "paused"
    /\ Issued("pause")
    /\ ~connectionError
    /\ firstSched # -1

\* C39 (as stated): a message that arrives while the player is loading or
\* playing puts one decode in flight for each of its chunks, and none when the
\* player is paused or stopped.
C39_EveryChunkDecoded ==
    [][received' > 0 =>
          Len(inflight')
            = Len(inflight) + IF playbackState \in {"loading", "playing"}
                              THEN received' ELSE 0]_vars

\* The body of handleReset ran in the last step.
ResetRan == \E j \in 1..Len(outbox) : outbox[j].cmd = "resetContext"

\* The resume of line 1424 is pending.
ResumeArmed == \E i \in 1..Len(timers) : timers[i].kind = "resume"

\* C20 (as stated): a reset arms the delayed resume if and only if the state
\* before it was loading or playing and the connection is healthy.
C20_ResetResumes ==
    [][ResetRan' =>
          (playbackState \in {"loading", "playing"} /\ ~connectionError
              <=> ResumeArmed')]_vars

\* The catch clause of setSessionWeightedPrompts ran in the last step.
RejectionHandled == toast # <<>> /\ toast[1] = "Error setting prompts"

\* C15 (as stated): a step that handles a rejected prompt push notifies the
\* user once, issues pause, leaves the state paused and the offset unset; and
\* once paused (in a run where only a rejection pauses) no buffer is handed
\* to the device.
C15_RejectionPauses ==
    [][/\ RejectionHandled' =>
             /\ Len(toast') = 1
             /\ \E j \in 1..Len(outbox') : outbox'[j].cmd = "pause"
             /\ playbackState' = "paused"
             /\ nextStartTime' = 0
       /\ playbackState' = "paused" => ~Handed']_vars

\* A generation-config push was rejected in the last step.
ConfigRejected ==
    unhandled # <<>> /\ unhandled[1] = "setMusicGenerationConfig"

\* C16 (as stated): a step in which a generation-config push is rejected
\* notifies the user, issues pause and leaves the state paused with the
\* offset unset, as a rejected prompt push does.
C16_ConfigRejectionPauses ==
    ConfigRejected =>
        /\ toast # <<>>
        /\ \E j \in 1..Len(outbox) : outbox[j].cmd = "pause"
        /\ playbackState = "paused"
        /\ nextStartTime = 0

\* What an emitted config must say of a slider: nothing when its auto flag is
\* on, else the value last picked on it, or 0.5 when none was.
Carries(detail, key, auto, picked) ==
    IF auto THEN key \notin DOMAIN detail
    ELSE key \in DOMAIN detail
           /\ detail[key] = (IF picked = undefined THEN 5 ELSE picked)

\* C23: every config handed to the publisher omits density (brightness) when
\* its auto flag is on, and otherwise carries the value last picked on the
\* slider, 0.5 if none was picked.
C23_AutoOmitted ==
    \A c \in 1..Len(calls) :
        calls[c].kind = "config" =>
            /\ Carries(calls[c].arg, "density", settings.autoDensity, chosen.density)
            /\ Carries(calls[c].arg, "brightness", settings.autoBrightness,
                       chosen.brightness)

\* Auto density was just switched off, and the config that went out carries
\* the value picked on the slider before (0.8), brightness being left out.
C23_Witness ==
    /\ chosen.by = "auto-density"
    /\ ~settings.autoDensity
    /\ settings.autoBrightness
    /\ chosen.brightness # undefined
    /\ \E c \in 1..Len(calls) :
          /\ calls[c].kind = "config"
          /\ DOMAIN calls[c].arg = {"temperature", "density"}
          /\ calls[c].arg["density"] = 8

-----------------------------------------------------------------------------
(* Properties of the publishers                                             *)

Command(k) == IF k = "prompts" THEN "setWeightedPrompts" ELSE "setMusicGenerationConfig"

\* A payload of kind k went out in the last step.
SentNow(k) == \E j \in 1..Len(outbox) : outbox[j].cmd = Command(k)

\* A publish call of kind k was made in the last step.
CalledNow(k) == \E c \in 1..Len(calls) : calls[c].kind = k

\* The throttle window opened by the last passing call of kind k is over.
WindowOver(k) == DateNow - lastCall[k] >= ThrottleDelay

\* this.session is set and its connection is up.
Connected == session # 0 /\ sessions[session] \in {"open", "ready"}

\* C1 (as stated): once a throttle window in which the prompt publish was
\* called two or more times is over, exactly one payload has gone out for it
\* and that payload is the one derived at the last of those calls.
C1_LatestWins ==
    pub["prompts"].windowCalls >= 2 /\ WindowOver("prompts")
        => /\ pub["prompts"].windowSends = 1
           /\ pub["prompts"].lastSent = pub["prompts"].lastArg

\* C2 (as stated): while connected, no edit stays unsent: once the throttle
\* window is over (after which only a further edit can send anything), the
\* payload last sent of each kind is the one derived at the last edit.
C2_NothingLeftUnsent ==
    \A k \in Kinds :
        Connected /\ WindowOver(k) /\ pub[k].lastArg # <<>>
            => pub[k].lastSent = pub[k].lastArg

\* When the payload of kind k before the one of the last step went out (-1: never).
PreviousSend(k) == IF SentNow(k) THEN pub[k].prevSentAt ELSE pub[k].sentAt

\* C27 (as stated): a publish call made with a session, when no payload of
\* its kind went out in the ThrottleDelay before it (or ever), sends in the
\* same step, and sends what the call derived.
C27_LeadingEdge ==
    \A k \in Kinds :
        /\ CalledNow(k)
        /\ session # 0
        /\ PreviousSend(k) = -1 \/ DateNow - PreviousSend(k) >= ThrottleDelay
        => /\ SentNow(k)
           /\ pub[k].lastSent = pub[k].lastArg

\* The other kind
Other(k) == IF k = "prompts" THEN "config" ELSE "prompts"

\* C28: a call of one kind leaves the other kind's lastCall alone, and a call
\* is dropped only when a payload of its own kind went out less than
\* ThrottleDelay before it, whatever went out of the other kind.
C28_IndependentThrottles ==
    [][\A k \in Kinds :
          CalledNow(k)' =>
              /\ ~CalledNow(Other(k))' => lastCall'[Other(k)] = lastCall[Other(k)]
              /\ ~SentNow(k)' =>
                    /\ pub[k].sentAt # -1
                    /\ DateNow' - pub[k].sentAt < ThrottleDelay]_vars

\* A config payload goes out less than ThrottleDelay after a prompts payload.
C28_Witness ==
    /\ SentNow("config")
    /\ ~SentNow("prompts")
    /\ pub["prompts"].sentAt # -1
    /\ DateNow - pub["prompts"].sentAt < ThrottleDelay

\* C3: for each kind, two payloads in a row go out at least ThrottleDelay
\* apart; a call made less than ThrottleDelay after the previous payload of
\* its kind sends nothing; and a payload goes out only in the step of a call
\* of its kind that passed the throttle, never later on behalf of a dropped call.
C3_Throttled ==
    \A k \in Kinds :
        /\ pub[k].prevSentAt # -1 => pub[k].sentAt - pub[k].prevSentAt >= ThrottleDelay
        /\ CalledNow(k) /\ PreviousSend(k) # -1 /\ DateNow - PreviousSend(k) < ThrottleDelay
              => ~SentNow(k)
        /\ SentNow(k) =>
              /\ \E c \in 1..Len(calls) : calls[c].kind = k /\ calls[c].passed
              /\ pub[k].sentAt = DateNow

\* Two payloads of a kind have gone out and a later call of that kind, made
\* within the delay, was dropped.
C3_Witness ==
    \E k \in Kinds :
        /\ pub[k].prevSentAt # -1
        /\ CalledNow(k)
        /\ DateNow - pub[k].sentAt < ThrottleDelay
        /\ ~SentNow(k)

\* trimmed text is not empty: some character is not a blank
HasInk(text) == \E i \in 1..Len(text) : text[i] # " "

\* The positions of the tracks that are to be published
Eligible ==
    {i \in 1..Len(tracks) : /\ tracks[i].weight > 0
                            /\ HasInk(tracks[i].text)
                            /\ tracks[i].text \notin filteredTrackTexts}

\* C4: every list handed to setWeightedPrompts holds exactly the tracks with
\* weight > 0, a text that is not blank and not in filteredTrackTexts, in
\* insertion order, each as {text: "name: text", weight}.
C4_PublishedList ==
    \A j \in 1..Len(outbox) :
        outbox[j].cmd = "setWeightedPrompts" =>
            /\ Len(outbox[j].arg) = Cardinality(Eligible)
            /\ \A i \in Eligible :
                  LET n == Cardinality({m \in Eligible : m <= i})
                  IN  /\ outbox[j].arg[n].text
                           = tracks[i].name \o <<":", " ">> \o tracks[i].text
                      /\ outbox[j].arg[n].weight = tracks[i].weight

\* A list went out that leaves out a track of positive weight whose text is
\* blank, and holds another track.
C4_Witness ==
    /\ \E j \in 1..Len(outbox) :
          outbox[j].cmd = "setWeightedPrompts" /\ Len(outbox[j].arg) = 1
    /\ \E i \in 1..Len(tracks) : tracks[i].weight > 0 /\ ~HasInk(tracks[i].text)

\* The ids of the tracks
IdsOf(ts) == {ts[i].trackId : i \in 1..Len(ts)}

\* C19 (as stated): track ids are pairwise distinct; a step that hands out an
\* id (nextTrackId moves) hands out one that no track has and makes the list
\* one longer, keeping every track that was there; and nextTrackId never
\* goes back, so an id is handed out once.
C19_FreshIds ==
    [][/\ \A i, j \in 1..Len(tracks') :
             i # j => tracks'[i].trackId # tracks'[j].trackId
       /\ nextTrackId' >= nextTrackId
       /\ nextTrackId' # nextTrackId =>
             /\ nextTrackId' = nextTrackId + 1
             /\ Id("track", "num", nextTrackId) \notin IdsOf(tracks)
             /\ Len(tracks') = Len(tracks) + 1
             /\ \A i \in 1..Len(tracks) : tracks'[i] = tracks[i]]_vars

\* C36 (as stated): a track whose text is in filteredTrackTexts, and that a
\* step leaves in the list with the same text, still has its text in the set
\* after the step, so that no publish includes it.
C36_FilteredUntilOwnEdit ==
    [][\A i \in 1..Len(tracks) :
          /\ tracks[i].text \in filteredTrackTexts
          /\ \E j \in 1..Len(tracks') :
                /\ tracks'[j].trackId = tracks[i].trackId
                /\ tracks'[j].text = tracks[i].text
          => /\ tracks[i].text \in filteredTrackTexts'
             /\ \A j \in 1..Len(tracks') :
                   tracks'[j].trackId = tracks[i].trackId =>
                       ~Publishable(tracks'[j], filteredTrackTexts')]_vars

\* The add handler found its input empty and returned (lines 1351-1354).
EmptyInputNoticed ==
    toast # <<>> /\ toast[1] = "Please enter a name or prompt for the new track."

\* C31: a step of the add, edit or remove handler that neither found its
\* input empty nor missed the track id calls the prompt publisher and
\* dispatches one tracks-changed event whose detail is this.tracks as the
\* step leaves it; a step that missed the track id changes no field, calls
\* no publisher, sends nothing and dispatches nothing.
C31_MutationsNotify ==
    [][/\ now' = now /\ missed' = <<>> /\ ~EmptyInputNoticed' =>
             /\ CalledNow("prompts")'
             /\ dispatched' = <<tracks'>>
       /\ tracks' # tracks => dispatched' = <<tracks'>>
       /\ missed' # <<>> =>
             /\ dispatched' = <<>>
             /\ calls' = <<>>
             /\ outbox' = <<>>
             /\ toast' = <<>>
             /\ <<tracks', nextTrackId', filteredTrackTexts', lastCall',
                  playbackState'>>
                = <<tracks, nextTrackId, filteredTrackTexts, lastCall,
                    playbackState>>]_vars

\* A track was removed within the throttle window of an earlier publish: the
\* publisher was called and let nothing through, and the event carries the
\* shorter map.
C31_Witness ==
    /\ dispatched = <<tracks>>
    /\ Len(tracks) = 1
    /\ \E c \in 1..Len(calls) : calls[c].kind = "prompts" /\ ~calls[c].passed

\* C18: a step that changes a track in place takes the track's old text out
\* of filteredTrackTexts when that text was in the set and the new text
\* differs, adds nothing, and leaves the set as it was when the text is the
\* same (a name or weight edit) or the old text was not in the set.
C18_EditUnfilters ==
    [][\A i \in 1..Len(tracks) :
          /\ Len(tracks') = Len(tracks)
          /\ tracks'[i].trackId = tracks[i].trackId
          /\ tracks'[i] # tracks[i]
          => filteredTrackTexts'
                = IF /\ tracks[i].text \in filteredTrackTexts
                     /\ tracks'[i].text # tracks[i].text
                  THEN filteredTrackTexts \ {tracks[i].text}
                  ELSE filteredTrackTexts]_vars

\* A filtered text was taken out of the set by an edit to a different text,
\* which is itself not in the set.
C18_Witness ==
    /\ Len(deleted) = 1
    /\ deleted[1] \notin filteredTrackTexts
    /\ \E i \in 1..Len(tracks) :
          /\ tracks[i].text # deleted[1]
          /\ tracks[i].text \notin filteredTrackTexts
          /\ \A m \in 1..Len(tracks) : m # i => tracks[m].text # deleted[1]

\* The filteredPrompt branch of onmessage ran in the last step.
FilterNoticed == toast # <<>> /\ toast[1] = "filteredReason"

\* No list sent in the last step holds a track whose text is filtered.
FilteredLeftOut ==
    \A j \in 1..Len(outbox) :
        outbox[j].cmd = "setWeightedPrompts" =>
            \A i \in 1..Len(tracks) :
                tracks[i].text \in filteredTrackTexts =>
                    \A n \in 1..Len(outbox[j].arg) :
                        outbox[j].arg[n].text
                            # tracks[i].name \o <<":", " ">> \o tracks[i].text

\* C17: a filteredPrompt notice adds its text to filteredTrackTexts, shows the
\* reason once, sends nothing and leaves playbackState and nextStartTime as
\* they were; and no list sent while a text is in the set holds a track with
\* that text.
C17_FilteredExcluded ==
    [][/\ FilterNoticed' =>
             /\ \E text \in FilteredTexts :
                   filteredTrackTexts' = filteredTrackTexts \cup {text}
             /\ Len(toast') = 1
             /\ outbox' = <<>>
             /\ playbackState' = playbackState
             /\ nextStartTime' = nextStartTime
             /\ tracks' = tracks
       /\ FilteredLeftOut']_vars

\* A list went out that holds a track while another track, of positive
\* weight and with a text that is not blank, is left out as filtered.
C17_Witness ==
    /\ \E j \in 1..Len(outbox) :
          outbox[j].cmd = "setWeightedPrompts" /\ Len(outbox[j].arg) = 1
    /\ \E i \in 1..Len(tracks) :
          /\ tracks[i].weight > 0
          /\ HasInk(tracks[i].text)
          /\ tracks[i].text \in filteredTrackTexts

-----------------------------------------------------------------------------
(* Properties of the scheduler                                              *)

\* The buffer handed over in the last step went through the underrun branch:
\* nothing but that branch gives a start of now + bufferTime/2 to a buffer that
\* does not continue the previous one.
HandedAfterUnderrun ==
    /\ Handed
    /\ ~started[1].gapless
    /\ started[1].start = now + bufferTime \div 2

\* C5: with no pause, stop, error or underrun since the previous buffer was
\* handed to the device, a buffer is given the start time at which the
\* previous one ends (its start plus its duration), in whatever order the
\* decodes complete.
C5_Contiguous ==
    \A i \in 1..Len(started) :
        started[i].gapless /\ started[i].after # -1
            => started[i].start = started[i].after

\* A buffer continues the previous one while another decode is still awaited.
C5_Witness ==
    /\ Handed
    /\ started[1].gapless
    /\ started[1].after # -1
    /\ started[1].start = started[1].after
    /\ inflight # <<>>

\* C6 (as stated): a buffer handed to the device while loading or playing
\* starts strictly in the future.
C6_StrictlyFuture ==
    Handed /\ playbackState \in {"loading", "playing"} => started[1].start > now

\* The offset the handler sees at line 1213, given the state before the step.
OffsetSeen == IF nextStartTime = 0 THEN currentTime + bufferTime ELSE nextStartTime

\* C6 (amended): when a buffer is handled and the offset is strictly behind
\* the clock, the state becomes loading and the buffer starts at
\* now + bufferTime/2; otherwise (the boundary offset = now included) the buffer
\* starts at the offset and the state is left alone; so no buffer starts in
\* the past.
C6_UnderrunStrict ==
    [][Handed' =>
          /\ OffsetSeen < now =>
                /\ playbackState' = "loading"
                /\ started'[1].start = now + bufferTime \div 2
          /\ OffsetSeen >= now =>
                /\ playbackState' = playbackState
                /\ started'[1].start = OffsetSeen
          /\ started'[1].start >= now]_vars

\* An underrun was detected and recovered from.
C6_Witness == HandedAfterUnderrun /\ playbackState = "loading"

\* C22 (as stated): no buffer of a chunk that arrived before outputNode was
\* last replaced is connected to a node whose gain is not 0.
C22_NoStaleAudio ==
    Handed => ~(started[1].stale /\ started[1].gain # 0)

\* The deadline of line 1211, armed now
Deadline == [kind |-> "lookahead", due |-> now + bufferTime]

C24_OffsetUnsetWhileHalted ==
    playbackState \in {"paused", "stopped"} => nextStartTime = 0

\* C25: a message with audio chunks that arrives while paused or stopped
\* starts no decode, hands nothing to the device, sends and shows nothing,
\* and leaves playbackState, nextStartTime and the timers as they were.
C25_DiscardedWhileHalted ==
    [][chunkSeq' # chunkSeq /\ playbackState \in {"paused", "stopped"} =>
          /\ inflight' = inflight
          /\ started' = <<>> /\ outbox' = <<>> /\ toast' = <<>>
          /\ playbackState' = playbackState
          /\ nextStartTime' = nextStartTime
          /\ timers' = timers]_vars

\* Paused since outputNode was last replaced, and the one chunk that has
\* arrived since then is neither in flight nor handed to the device.
C25_Witness ==
    /\ playbackState = "paused"
    /\ pausedAt > 0
    /\ chunkSeq = pausedAt + 1
    /\ lastSeq <= pausedAt
    /\ \A i \in 1..Len(inflight) : inflight[i].seq <= pausedAt

\* A decode failed in the last step.
DecodeFailed == unhandled # <<>> /\ unhandled[1] = "decodeAudioData"

\* C21: a step in which a decode fails hands nothing to the device, shows and
\* sends nothing, and leaves playbackState, nextStartTime, the timers and the
\* end of the last buffer as they were; so the next buffer of the run starts
\* where the last one that was scheduled ends.
C21_FailureDropsChunk ==
    [][/\ DecodeFailed' =>
             /\ started' = <<>> /\ outbox' = <<>> /\ toast' = <<>>
             /\ playbackState' = playbackState
             /\ nextStartTime' = nextStartTime
             /\ timers' = timers
             /\ lastEnd' = lastEnd
             /\ interrupted' = interrupted
       /\ Handed' /\ started'[1].gapless /\ started'[1].after # -1 =>
             started'[1].start = lastEnd]_vars

\* A buffer continues the last one scheduled, the chunk that arrived between
\* theirs having failed to decode.
C21_Witness ==
    /\ Handed
    /\ started[1].gapless
    /\ started[1].after # -1
    /\ started[1].start = started[1].after
    /\ started[1].seq = started[1].prevSeq + 2
    /\ inflight = <<>>

\* C11 (as stated): buffers are handed over in the order their chunks arrived:
\* a buffer that continues the previous one (same run, so with a later start)
\* belongs to a chunk that arrived after the previous one's.
C11_ArrivalOrder ==
    Handed /\ started[1].gapless /\ started[1].after # -1
        => started[1].seq > started[1].prevSeq

\* C7 (as stated): loading always leads to playing.  Only the callback of
\* line 1211 sets playing, and it is armed only by a buffer handled with the
\* offset unset; so while loading, a deadline is pending or the offset is unset.
C7_LoadingCanProgress ==
    playbackState = "loading" => timers # <<>> \/ nextStartTime = 0

\* C8 (as stated): when play follows pause, the offset is unset as the new run
\* starts.
C8_OffsetUnsetOnPlay ==
    [][playbackState = "paused" /\ PlayIssued' => nextStartTime' = 0]_vars

\* C9 (as stated): the state is playing only when at least bufferTime has
\* passed since the first buffer of the current run was handed over.
C9_PlayingAfterLookahead ==
    playbackState = "playing" =>
        firstSched # -1 /\ now >= firstSched + bufferTime

\* C10 (as stated): no buffer is handed to the device while paused or stopped.
C10_NoStartWhileHalted ==
    Handed => playbackState \notin {"paused", "stopped"}

====
